---- MODULE Spec2Model ----
(***************************************************************************)
(* Model of backend/daily_game_backend.py: the DailyCountryGame manager     *)
(* (country pool, per-day cache, reset stamp), the request handlers         *)
(* get_game_state and check_guess, and the timer-driven daily_check.        *)
(*                                                                          *)
(* Python dicts are functions whose DOMAIN is the set of keys present; a    *)
(* dict held by reference (current_country, cached_country) is an id into   *)
(* `heap`, so that two references to one dict see each other's writes.       *)
(***************************************************************************)
EXTENDS Integers, Sequences, FiniteSets, TLC

\* ------------------------------------------------------------------ bounds
\* Number of UTC days the clock runs through.
MaxDay == 3
\* Largest hint level a caller supplies (levels run from -1 to MaxHint).
MaxHint == 4

\* ------------------------------------------------------- program constants
\* population filter of _fetch_country_pool
PopThreshold == 500000
\* HTTP status that counts as success
StatusOK == 200
\* first hint level that ends the game
TerminalLevel == 4
\* 16-bit state of the seeded generator that stands for random.seed/shuffle
RandModulus == 65537

Placeholder == "placeholder_base64"
\* None as a reference, as a date, and as a field of a JSON response
\* (a present field of a response is the one-element tuple of its value).
NoneRef == 0
NoDate == <<>>
None == <<>>
Some(v) == <<v>>

\* ------------------------------------------------------------ dict helpers
HasKey(d, k) == k \in DOMAIN d
Get(d, k, default) == IF k \in DOMAIN d THEN d[k] ELSE default
SetKey(d, k, v) == [x \in DOMAIN d \cup {k} |-> IF x = k THEN v ELSE d[x]]

\* ------------------------------------------------- provider data (JSON)
\* Names are sequences of characters, so that str.lower() is a real map.
NameFr == <<"F", "r">>
NameJp == <<"J", "p">>
NamePe == <<"P", "e">>
NameMc == <<"M", "c">>
NameXk == <<"X", "k">>
NameIs == <<"I", "s">>

\* A well-populated entry with every optional key present.
RawFr == [name |-> [common |-> NameFr], flags |-> [png |-> "fr.png"],
          capital |-> <<"Paris">>, region |-> "Europe",
          population |-> 10000000, cca2 |-> "FR"]
\* No capital and no region: the .get defaults apply.
RawJp == [name |-> [common |-> NameJp], flags |-> [png |-> "jp.png"],
          population |-> 2000000, cca2 |-> "JP"]
\* An empty flag reference: _process_images raises "No flag URL available".
RawPe == [name |-> [common |-> NamePe], flags |-> [png |-> ""],
          capital |-> <<"Lima">>, region |-> "Americas",
          population |-> 3000000, cca2 |-> "PE"]
\* Too small.
RawMc == [name |-> [common |-> NameMc], flags |-> [png |-> "mc.png"],
          capital |-> <<"Monaco">>, region |-> "Europe",
          population |-> 100000, cca2 |-> "MC"]
\* Large but without a country code.
RawXk == [name |-> [common |-> NameXk], flags |-> [png |-> "xk.png"],
          capital |-> <<"Pristina">>, region |-> "Europe",
          population |-> 1800000]
\* Exactly at the threshold, and no population key at all is the same as 0.
RawIs == [name |-> [common |-> NameIs], flags |-> [png |-> "is.png"],
          capital |-> <<"Reykjavik">>, region |-> "Europe",
          population |-> 500000, cca2 |-> "IS"]

\* Raw provider snapshots an execution may run against.
FullSnapshot == <<RawFr, RawMc, RawJp, RawXk, RawPe, RawIs>>
Snapshots == { FullSnapshot,
               <<RawJp, RawFr, RawIs>>,
               <<RawMc, RawXk, RawIs>> }

\* ------------------------------------------------------------------ clock
\* The clock counts UTC days; day 0 is 2024-11-09, the scheduler's start date.
\* datetime.now(timezone.utc).strftime('%Y-%m-%d'): the date string is the
\* triple <<year, month, day>>.
get_current_date(t) == <<2024, 11, 9 + t>>

LastTick == MaxDay - 1

\* ---------------------------------------------------------------- shuffle
\* random.seed(today): the generator state is a function of the date string.
Seed(date) == (date[1] * 372 + date[2] * 31 + date[3]) % RandModulus
NextRand(st) == (st * 75 + 74) % RandModulus

Swap(x, i, j) == [x EXCEPT ![i] = x[j], ![j] = x[i]]

\* random.shuffle(x): for i from the last index down to the second,
\* j = randbelow(i + 1) and x[i], x[j] are exchanged (Fisher-Yates).
RECURSIVE ShuffleFrom(_, _, _)
ShuffleFrom(x, i, st) ==
    IF i < 2 THEN x
    ELSE LET st2 == NextRand(st)
             j == ((st2 \div 16) % i) + 1
         IN ShuffleFrom(Swap(x, i, j), i - 1, st2)

shuffle(date, x) == ShuffleFrom(x, Len(x), Seed(date))

\* A filter that keeps a country of exactly the threshold population.
QualifiesFromThreshold(country) ==
    /\ Get(country, "population", 0) >= PopThreshold
    /\ Get(country, "cca2", "") # ""

\* the list comprehension of _fetch_country_pool
Qualifies(country) ==
    /\ Get(country, "population", 0) > PopThreshold
    /\ Get(country, "cca2", "") # ""

FilterPool(countries) == SelectSeq(countries, Qualifies)

\* ------------------------------------------------------------ environment
\* What requests.get on the provider does: a 200 answer, another status, or
\* an exception (connection error).
ProviderStates == {"ok", "bad_status", "unreachable"}
\* What fetching and converting the flag image does.
ImgOutcomes == {"ok", "transport_error", "bad_status", "decode_error"}

Threads == {"req1", "req2", "timer"}

VARIABLES
    now,              \* the UTC clock, in days
    provider,         \* state of the country provider
    raw,              \* the provider's raw country list
    current_country,  \* self.current_country: a reference, NoneRef for None
    last_reset_date,  \* self.last_reset_date
    country_pool,     \* self.country_pool
    pool_seed,        \* the date `today` that seeded the shuffle of country_pool
    cached_country,   \* self.cached_country: a reference
    cached_date,      \* self.cached_date
    heap,             \* the dicts that references point to
    timer_date,       \* the date of the scheduler's last firing
    th,               \* per thread: its position and local variables
    runs,             \* handlers started step by step so far
    served,           \* <<date, name>> of every record get_daily_country returned
    last              \* the call that has just ended: its inputs, path and
                      \* result (NoCall after a step of the environment)

mgr == <<current_country, last_reset_date, country_pool, pool_seed,
         cached_country, cached_date, heap>>
env == <<now, provider, raw, timer_date>>
vars == <<now, provider, raw, current_country, last_reset_date, country_pool,
          pool_seed, cached_country, cached_date, heap, timer_date, th, runs,
          served, last>>

\* The manager object as one value, for the methods below.
Self == [current_country |-> current_country,
         last_reset_date |-> last_reset_date,
         country_pool |-> country_pool,
         pool_seed |-> pool_seed,
         cached_country |-> cached_country,
         cached_date |-> cached_date,
         heap |-> heap]

\* DailyCountryGame.__init__
NewGame == [current_country |-> NoneRef,
            last_reset_date |-> NoDate,
            country_pool |-> <<>>,
            pool_seed |-> NoDate,
            cached_country |-> NoneRef,
            cached_date |-> NoDate,
            heap |-> <<>>]

\* A fresh dict: the smallest id that no live dict has.
Alloc(h) == CHOOSE i \in 1..(Cardinality(DOMAIN h) + 1) : i \notin DOMAIN h

\* The record a reference denotes, for the results kept in `last`.
Deref(h, ref) == IF ref = NoneRef THEN <<>> ELSE h[ref]

\* ----------------------------------------------------------------- methods
\* A lookup that ignores the stamp of the entry.
load_cache_unstamped(self, t) == self.cached_country

\* _load_cache: the cached reference when its stamp is today's, else None.
load_cache(self, t) ==
    IF self.cached_date = get_current_date(t) /\ self.cached_country # NoneRef
    THEN self.cached_country
    ELSE NoneRef

\* A save that stores the record and leaves the stamp of the entry.
save_cache_unstamped(self, t, country_data) ==
    [self EXCEPT !.cached_country = country_data]

\* _save_cache
save_cache(self, t, country_data) ==
    [self EXCEPT !.cached_date = get_current_date(t),
                 !.cached_country = country_data]

\* requests.get of the provider
Response(prov, snapshot) ==
    [status_code |-> IF prov = "ok" THEN StatusOK ELSE 503, json |-> snapshot]

\* _fetch_country_pool: on a 200 answer the pool becomes the filtered list,
\* shuffled with today's date as seed; on anything else it is left as it is.
fetch_country_pool(self, t, prov, snapshot) ==
    IF prov = "unreachable" THEN self
    ELSE LET response == Response(prov, snapshot)
             today == get_current_date(t)
         IN IF response.status_code = StatusOK
            THEN [self EXCEPT
                    !.country_pool = shuffle(today, FilterPool(response.json)),
                    !.pool_seed = today]
            ELSE self

\* The two encoded images of a flag: the blurred and the unblurred one.
BlurredOf(flag_url) == "data:image/png;base64,blurred:" \o flag_url
UnblurredOf(flag_url) == "data:image/png;base64,rgb:" \o flag_url

\* A placeholder routine that forgets the unblurred image.
use_placeholder_blurred_only(self) ==
    LET ref == self.current_country
    IN [self EXCEPT
          !.heap[ref] = SetKey(self.heap[ref], "blurred_image", Placeholder)]

\* _use_placeholder_image
use_placeholder_image(self) ==
    LET ref == self.current_country
        d1 == SetKey(self.heap[ref], "blurred_image", Placeholder)
        d2 == SetKey(d1, "unblurred_image", Placeholder)
    IN [self EXCEPT !.heap[ref] = d2]

\* _process_images: any exception (no flag URL, transport, status, decoding)
\* ends in the placeholder pair.
process_images(self, img) ==
    LET ref == self.current_country
        flag_url == Get(self.heap[ref], "flag_url", "")
    IN IF flag_url = "" \/ img # "ok"
       THEN use_placeholder_image(self)
       ELSE LET d1 == SetKey(self.heap[ref], "blurred_image", BlurredOf(flag_url))
                d2 == SetKey(d1, "unblurred_image", UnblurredOf(flag_url))
            IN [self EXCEPT !.heap[ref] = d2]

\* The dict literal of get_daily_country, built from the head of the pool.
Skeleton(country) ==
    [name |-> country.name.common,
     flag_url |-> country.flags.png,
     capital |-> IF Get(country, "capital", <<>>) # <<>>
                 THEN country.capital[1] ELSE "N/A",
     continent |-> Get(country, "region", "Unknown"),
     population |-> Get(country, "population", 0)]

\* A test that asks for a reset on every call.
reset_always(self, current_date) == current_date = current_date

\* A test that resets only a manager that was never reset.
reset_only_once(self, current_date) == self.last_reset_date = NoDate

\* The test of get_daily_country for leaving the fast path.
reset_needed(self, current_date) == self.last_reset_date # current_date

\* A get_daily_country that stamps the day although it found no country.
no_country_stamped(self, current_date, fetch) ==
    [self |-> [self EXCEPT !.last_reset_date = current_date],
     ret |-> NoneRef, path |-> "none", fetched |-> fetch]

\* A get_daily_country that drops the cache entry when it finds no country.
no_country_evicting(self, current_date, fetch) ==
    [self |-> [self EXCEPT !.cached_country = NoneRef, !.cached_date = NoDate],
     ret |-> NoneRef, path |-> "none", fetched |-> fetch]

\* The branch of get_daily_country that finds no country: it returns None
\* and assigns nothing.
no_country(self, current_date, fetch) ==
    [self |-> self, ret |-> NoneRef, path |-> "none", fetched |-> fetch]

\* get_daily_country.  The result holds the manager after the call, the
\* returned reference, the branch taken and whether the provider was asked.
get_daily_country(self, t, prov, snapshot, img) ==
    LET current_date == get_current_date(t) IN
    IF reset_needed(self, current_date)
    THEN LET cached == load_cache(self, t) IN
         IF cached # NoneRef
         THEN LET s1 == [self EXCEPT !.current_country = cached]
                  s2 == process_images(s1, img)
                  s3 == [s2 EXCEPT !.last_reset_date = current_date]
              IN [self |-> s3, ret |-> s3.current_country, path |-> "hit",
                  fetched |-> FALSE]
         ELSE LET fetch == self.country_pool = <<>>
                  s1 == IF fetch
                        THEN fetch_country_pool(self, t, prov, snapshot)
                        ELSE self
              IN IF s1.country_pool # <<>>
                 THEN LET country == s1.country_pool[1]
                          ref == Alloc(s1.heap)
                          s2 == [s1 EXCEPT
                                   !.heap = SetKey(s1.heap, ref, Skeleton(country)),
                                   !.current_country = ref]
                          s3 == process_images(s2, img)
                          s4 == save_cache(s3, t, s3.current_country)
                          s5 == [s4 EXCEPT !.last_reset_date = current_date]
                      IN [self |-> s5, ret |-> s5.current_country,
                          path |-> "miss", fetched |-> fetch]
                 ELSE no_country(s1, current_date, fetch)
    ELSE [self |-> self, ret |-> self.current_country, path |-> "fast",
          fetched |-> FALSE]

\* ------------------------------------------------------------ check_guess
LowerMap == [F |-> "f", R |-> "r", J |-> "j", P |-> "p", E |-> "e",
             M |-> "m", C |-> "c", X |-> "x", K |-> "k", I |-> "i", S |-> "s"]
LowerChar(c) == IF c \in DOMAIN LowerMap THEN LowerMap[c] ELSE c
\* str.lower()
lower(s) == [i \in DOMAIN s |-> LowerChar(s[i])]

Pad3(k) == IF k < 10 THEN "00" \o ToString(k)
           ELSE IF k < 100 THEN "0" \o ToString(k) ELSE ToString(k)
\* format(n, ','): decimal digits in groups of three
RECURSIVE FormatThousands(_)
FormatThousands(n) ==
    IF n < 1000 THEN ToString(n)
    ELSE FormatThousands(n \div 1000) \o "," \o Pad3(n % 1000)

\* What a lookup d[k] gives: the value, or a KeyError.
KeyError == <<"KeyError", "raised">>
Item(d, k) == IF k \in DOMAIN d THEN Some(d[k]) ELSE KeyError

\* An end-of-game test that is off by one level.
game_over_late(correct, hint_level) == correct \/ hint_level > TerminalLevel

\* "game over": the test that ends the hint progression
game_over(correct, hint_level) == correct \/ hint_level >= TerminalLevel

\* A hint progression that gives the capital one level early.
hint_for_early_capital(cc, hint_level) ==
    IF hint_level = 0
    THEN [hint_text |-> Some("Unblurred Flag"),
          hint_image |-> Item(cc, "unblurred_image")]
    ELSE IF hint_level = 1
    THEN [hint_text |-> Some("Population: " \o FormatThousands(cc.population)),
          hint_image |-> Item(cc, "unblurred_image")]
    ELSE IF hint_level \in {2, 3}
    THEN [hint_text |-> Some("Capital: " \o cc.capital),
          hint_image |-> Some(cc.flag_url)]
    ELSE [hint_text |-> None, hint_image |-> None]

\* The hint progression: the text and the image for a level, for the
\* current record cc; no hint outside 0..3.
hint_for(cc, hint_level) ==
    IF hint_level = 0
    THEN [hint_text |-> Some("Unblurred Flag"),
          hint_image |-> Item(cc, "unblurred_image")]
    ELSE IF hint_level = 1
    THEN [hint_text |-> Some("Population: " \o FormatThousands(cc.population)),
          hint_image |-> Item(cc, "unblurred_image")]
    ELSE IF hint_level = 2
    THEN [hint_text |-> Some("Continent: " \o cc.continent),
          hint_image |-> Item(cc, "unblurred_image")]
    ELSE IF hint_level = 3
    THEN [hint_text |-> Some("Capital: " \o cc.capital),
          hint_image |-> Some(cc.flag_url)]
    ELSE [hint_text |-> None, hint_image |-> None]

\* The response check_guess builds for the record cc once `correct` is
\* known: the JSON it answers with, but for next_reset (the seconds to the
\* next UTC midnight, which the clock here does not resolve).
response_for(cc, correct, hint_level) ==
    LET response == [correct |-> correct,
                     hint_level |-> hint_level,
                     hint_text |-> None,
                     hint_image |-> None,
                     player_name |-> None,
                     status |-> StatusOK]
    IN IF game_over(correct, hint_level)
       THEN [response EXCEPT !.hint_image = None,
                             !.player_name = Some(cc.name)]
            @@ [image_url |-> Some(cc.flag_url)]
       ELSE IF ~correct /\ hint_level < TerminalLevel
       THEN LET hint == hint_for(cc, hint_level)
            IN [response EXCEPT !.hint_text = hint.hint_text,
                                !.hint_image = hint.hint_image]
       ELSE response

\* A lookup that raised ends the request in a server error.
ServerError(kind) == [error |-> kind, status |-> 500]
Raised(r) ==
    IF "hint_image" \in DOMAIN r /\ r.hint_image = KeyError
    THEN ServerError("KeyError") ELSE r

\* A check_guess that also wants a pool to be held.
guess_body_pooled(self, guess, hint_level) ==
    IF self.current_country = NoneRef \/ self.country_pool = <<>>
    THEN [error |-> "No active game", status |-> 400]
    ELSE LET cc == self.heap[self.current_country]
             correct == lower(guess) = lower(cc.name)
         IN response_for(cc, correct, hint_level)

\* A check_guess that also refuses a negative hint level as "No active game".
guess_body_refusing(self, guess, hint_level) ==
    IF self.current_country = NoneRef \/ hint_level < 0
    THEN [error |-> "No active game", status |-> 400]
    ELSE LET cc == self.heap[self.current_country]
             correct == lower(guess) = lower(cc.name)
         IN response_for(cc, correct, hint_level)

\* The body of check_guess, run without interruption.
guess_body(self, guess, hint_level) ==
    IF self.current_country = NoneRef
    THEN [error |-> "No active game", status |-> 400]
    ELSE LET cc == self.heap[self.current_country]
             correct == lower(guess) = lower(cc.name)
         IN response_for(cc, correct, hint_level)

\* check_guess
check_guess(self, guess, hint_level) == Raised(guess_body(self, guess, hint_level))

\* A daily_check that resets whatever the reset stamp says.
daily_check_unguarded(self, t, prov, snapshot, img) ==
    LET s1 == [self EXCEPT !.current_country = NoneRef, !.country_pool = <<>>,
                           !.pool_seed = NoDate, !.last_reset_date = NoDate,
                           !.cached_date = NoDate]
        s3 == fetch_country_pool(s1, t, prov, snapshot)
        r == get_daily_country(s3, t, prov, snapshot, img)
    IN [self |-> r.self, checked |-> TRUE, called |-> TRUE,
        pre |-> s3, inner |-> r]

\* daily_check.  `called` tells whether it went on to get_daily_country,
\* `pre` is the manager as that call found it, `inner` the call's result.
daily_check(self, t, prov, snapshot, img) ==
    LET current_date == get_current_date(t) IN
    IF self.last_reset_date # current_date
    THEN LET s1 == [self EXCEPT !.current_country = NoneRef]
             new_country == load_cache(s1, t)
         IN IF new_country = NoneRef
            THEN LET s2 == [s1 EXCEPT !.country_pool = <<>>, !.pool_seed = NoDate]
                     s3 == fetch_country_pool(s2, t, prov, snapshot)
                     r == get_daily_country(s3, t, prov, snapshot, img)
                 IN [self |-> r.self, checked |-> TRUE, called |-> TRUE,
                     pre |-> s3, inner |-> r]
            ELSE [self |-> s1, checked |-> TRUE, called |-> FALSE]
    ELSE [self |-> self, checked |-> FALSE, called |-> FALSE]

\* The body of get_game_state, given what get_daily_country returned.
game_state_response(self, t, ret) ==
    IF ret = NoneRef
    THEN ServerError("TypeError")
    ELSE LET country == self.heap[ret] IN
         IF ~HasKey(country, "blurred_image")
         THEN ServerError("KeyError")
         ELSE [blurred_image |-> country.blurred_image,
               game_id |-> <<"hash", country.name>>,
               current_date |-> self.last_reset_date,
               status |-> StatusOK]

\* ---------------------------------------------------------------- actions
\* The guesses and hint levels a caller may send.
Guesses == { <<"F", "R">>, <<"j", "p">>, <<"P", "e">>, <<"x", "x">> }
HintLevels == -1 .. MaxHint

Idle == [pc |-> "idle"]
NoCall == [op |-> "none", called |-> FALSE]

\* References some thread still holds.
ThreadRefs(t) == { t[x].ref : x \in { y \in Threads : "ref" \in DOMAIN t[y] } }

\* The manager's fields become those of s; dicts nothing refers to are dropped.
Install(s, threads) ==
    LET live == ({s.current_country, s.cached_country} \cup ThreadRefs(threads))
                \ {NoneRef}
    IN /\ current_country' = s.current_country
       /\ last_reset_date' = s.last_reset_date
       /\ country_pool' = s.country_pool
       /\ pool_seed' = s.pool_seed
       /\ cached_country' = s.cached_country
       /\ cached_date' = s.cached_date
       /\ heap' = [i \in DOMAIN s.heap \cap live |-> s.heap[i]]

\* What `last` keeps of a get_daily_country call.
CallRecord(op, pre, r, t, img) ==
    [op |-> op,
     called |-> TRUE,
     at |-> t,
     date |-> get_current_date(t),
     path |-> r.path,
     fetched |-> r.fetched,
     img |-> img,
     returned |-> r.ret # NoneRef,
     ret |-> r.ret,
     rec |-> Deref(r.self.heap, r.ret),
     first |-> \A p \in served : p[1] # get_current_date(t),
     pre |-> pre]

Served(r, t) ==
    IF r.ret = NoneRef THEN served
    ELSE served \cup { <<get_current_date(t), r.self.heap[r.ret].name>> }

Init ==
    /\ now = 0
    /\ provider \in ProviderStates
    /\ raw \in Snapshots
    /\ current_country = NewGame.current_country
    /\ last_reset_date = NewGame.last_reset_date
    /\ country_pool = NewGame.country_pool
    /\ pool_seed = NewGame.pool_seed
    /\ cached_country = NewGame.cached_country
    /\ cached_date = NewGame.cached_date
    /\ heap = NewGame.heap
    /\ timer_date = NoDate
    /\ th = [x \in Threads |-> Idle]
    /\ runs = 0
    /\ served = {}
    /\ last = NoCall

\* UTC midnight passes.
Tick ==
    /\ now < LastTick
    /\ now' = now + 1
    /\ last' = NoCall
    /\ UNCHANGED <<provider, raw, timer_date, mgr, th, runs, served>>

\* The provider starts to fail.
ProviderFails ==
    /\ provider = "ok"
    /\ provider' \in {"bad_status", "unreachable"}
    /\ last' = NoCall
    /\ UNCHANGED <<now, raw, timer_date, mgr, th, runs, served>>

\* The provider answers again.
ProviderRecovers ==
    /\ provider # "ok"
    /\ provider' = "ok"
    /\ last' = NoCall
    /\ UNCHANGED <<now, raw, timer_date, mgr, th, runs, served>>

\* GET /api/game-state, run from start to end.
GetGameState ==
    \E img \in ImgOutcomes :
        LET r == get_daily_country(Self, now, provider, raw, img)
        IN /\ Install(r.self, th)
           /\ served' = Served(r, now)
           /\ last' = CallRecord("get_game_state", Self, r, now, img)
                      @@ [response |-> game_state_response(r.self, now, r.ret)]
           /\ UNCHANGED <<env, th, runs>>

\* POST /api/guess, run from start to end.
CheckGuess ==
    \E guess \in Guesses, hint_level \in HintLevels :
        /\ last' = [op |-> "check_guess", called |-> FALSE, at |-> now,
                    guess |-> guess, hint_level |-> hint_level,
                    response |-> check_guess(Self, guess, hint_level)]
        /\ UNCHANGED <<env, mgr, th, runs, served>>

\* The scheduler's job: once per UTC day it runs daily_check from start to end.
DailyCheck ==
    /\ timer_date # get_current_date(now)
    /\ timer_date' = get_current_date(now)
    /\ \E img \in ImgOutcomes :
        LET d == daily_check(Self, now, provider, raw, img)
        IN /\ Install(d.self, th)
           /\ IF d.called
              THEN /\ served' = Served(d.inner, now)
                   /\ last' = CallRecord("daily_check", d.pre, d.inner, now, img)
                              @@ [checked |-> TRUE]
              ELSE /\ served' = served
                   /\ last' = [op |-> "daily_check", called |-> FALSE,
                               at |-> now, checked |-> d.checked, pre |-> Self]
    /\ UNCHANGED <<now, provider, raw, th, runs>>

Next ==
    \/ Tick
    \/ ProviderFails
    \/ ProviderRecovers
    \/ GetGameState
    \/ CheckGuess
    \/ DailyCheck

Spec == Init /\ [][Next]_vars

\* ------------------------------------------------- handlers, step by step
\* The Flask server runs each request in a thread of its own and the
\* scheduler runs daily_check in another; the manager has no lock.  Below
\* each handler advances one access to the shared manager at a time.  `last`
\* holds a handler's result in the state in which it ends, NoCall otherwise.

\* Handlers started step by step in one execution.
MaxRuns == 3
\* Handlers that may be in flight at the same time.
MaxInFlight == 2

Requests == {"req1", "req2"}
\* The guesses sent while handlers interleave: a wrong and a right one.
ConcGuesses == { <<"x", "x">>, <<"j", "p">> }

\* The heap without the dicts that neither the manager nor a thread refers to.
Collect(h, cur, cach, threads) ==
    [i \in DOMAIN h \cap (({cur, cach} \cup ThreadRefs(threads)) \ {NoneRef})
        |-> h[i]]

Goto(tid, pc) == th' = [th EXCEPT ![tid] = [th[tid] EXCEPT !.pc = pc]]

\* get_daily_country, entry: read the clock and test the reset stamp.
Enter(tid, op) ==
    LET current_date == get_current_date(now)
    IN th' = [th EXCEPT ![tid] =
                [pc |-> IF reset_needed(Self, current_date) THEN "load" ELSE "ret",
                 op |-> op, current_date |-> current_date, path |-> "fast"]]

\* A thread may start a handler.
CanStart(tid) ==
    /\ th[tid].pc = "idle"
    /\ runs < MaxRuns
    /\ Cardinality({u \in Threads : th[u].pc # "idle"}) < MaxInFlight

\* A handler ends: what `last` keeps of it.
Ended(tid, fields) == last' = [op |-> th[tid].op, called |-> FALSE] @@ fields

\* A request thread starts get_game_state and enters get_daily_country.
StartGameState(tid) ==
    /\ CanStart(tid)
    /\ runs' = runs + 1
    /\ Enter(tid, "get_game_state")
    /\ last' = NoCall
    /\ UNCHANGED <<env, mgr, served>>

\* cached_country = self._load_cache(); on a hit the cached dict becomes the
\* current one.
LoadCache(tid) ==
    /\ th[tid].pc = "load"
    /\ LET cached == load_cache(Self, now)
       IN IF cached # NoneRef
          THEN /\ current_country' = cached
               /\ th' = [th EXCEPT ![tid] = [th[tid] EXCEPT !.pc = "img_read",
                                                            !.path = "hit"]]
               /\ heap' = Collect(heap, cached, cached_country, th')
          ELSE /\ Goto(tid, "pool")
               /\ UNCHANGED <<current_country, heap>>
    /\ last' = NoCall
    /\ UNCHANGED <<env, runs, served, last_reset_date, country_pool, pool_seed,
                   cached_country, cached_date>>

\* if not self.country_pool: self._fetch_country_pool()
TestPool(tid) ==
    /\ th[tid].pc = "pool"
    /\ th' = [th EXCEPT ![tid] =
                IF country_pool = <<>>
                THEN [th[tid] EXCEPT !.pc = "fetch"] @@ [after |-> "pick"]
                ELSE [th[tid] EXCEPT !.pc = "pick"]]
    /\ last' = NoCall
    /\ UNCHANGED <<env, mgr, runs, served>>

\* _fetch_country_pool up to the assignment of the filtered list.
FetchAssign(tid) ==
    /\ th[tid].pc = "fetch"
    /\ LET response == Response(provider, raw)
       IN IF provider # "unreachable" /\ response.status_code = StatusOK
          THEN /\ country_pool' = FilterPool(response.json)
               /\ pool_seed' = NoDate
               /\ Goto(tid, "shuffle")
          ELSE /\ Goto(tid, th[tid].after)
               /\ UNCHANGED <<country_pool, pool_seed>>
    /\ last' = NoCall
    /\ UNCHANGED <<env, runs, served, current_country, last_reset_date,
                   cached_country, cached_date, heap>>

\* random.seed(today); random.shuffle(self.country_pool)
FetchShuffle(tid) ==
    /\ th[tid].pc = "shuffle"
    /\ country_pool' = shuffle(get_current_date(now), country_pool)
    /\ pool_seed' = get_current_date(now)
    /\ Goto(tid, th[tid].after)
    /\ last' = NoCall
    /\ UNCHANGED <<env, runs, served, current_country, last_reset_date,
                   cached_country, cached_date, heap>>

\* if self.country_pool: the head of the pool becomes the current record,
\* without images yet; else the call returns None.
PickCountry(tid) ==
    /\ th[tid].pc = "pick"
    /\ IF country_pool # <<>>
       THEN LET ref == Alloc(heap)
            IN /\ current_country' = ref
               /\ th' = [th EXCEPT ![tid] = [th[tid] EXCEPT !.pc = "img_read",
                                                            !.path = "miss"]]
               /\ heap' = Collect(SetKey(heap, ref, Skeleton(country_pool[1])),
                                  ref, cached_country, th')
       ELSE /\ th' = [th EXCEPT ![tid] = [th[tid] EXCEPT !.pc = "return_none",
                                                         !.path = "none"]]
            /\ UNCHANGED <<current_country, heap>>
    /\ last' = NoCall
    /\ UNCHANGED <<env, runs, served, last_reset_date, country_pool, pool_seed,
                   cached_country, cached_date>>

\* _process_images up to the images: the flag URL is read from the current
\* record and fetched; any exception leads to the placeholder pair.
ReadFlag(tid) ==
    /\ th[tid].pc = "img_read"
    /\ \E img \in ImgOutcomes :
         LET flag_url == IF current_country = NoneRef THEN ""
                         ELSE Get(heap[current_country], "flag_url", "")
             good == flag_url # "" /\ img = "ok"
         IN th' = [th EXCEPT ![tid] =
                     [th[tid] EXCEPT !.pc = "img_blurred"]
                     @@ [blurred |-> IF good THEN BlurredOf(flag_url)
                                     ELSE Placeholder,
                         unblurred |-> IF good THEN UnblurredOf(flag_url)
                                       ELSE Placeholder]]
    /\ last' = NoCall
    /\ UNCHANGED <<env, mgr, runs, served>>

\* An exception leaves the handler: the request ends in a server error,
\* the scheduler logs the failed job.
Crash(tid, kind) ==
    /\ th' = [th EXCEPT ![tid] = Idle]
    /\ Ended(tid, [response |-> ServerError(kind)])

\* self.current_country['blurred_image'] = ...  The current record is read
\* again; on None the TypeError is caught, _use_placeholder_image raises it
\* again and it leaves the call.
WriteBlurred(tid) ==
    /\ th[tid].pc = "img_blurred"
    /\ IF current_country = NoneRef
       THEN /\ Crash(tid, "TypeError")
            /\ heap' = Collect(heap, current_country, cached_country, th')
       ELSE /\ heap' = [heap EXCEPT ![current_country] =
                          SetKey(@, "blurred_image", th[tid].blurred)]
            /\ Goto(tid, "img_unblurred")
            /\ last' = NoCall
    /\ UNCHANGED <<env, runs, served, current_country, last_reset_date,
                   country_pool, pool_seed, cached_country, cached_date>>

\* self.current_country['unblurred_image'] = ...
WriteUnblurred(tid) ==
    /\ th[tid].pc = "img_unblurred"
    /\ IF current_country = NoneRef
       THEN /\ Crash(tid, "TypeError")
            /\ heap' = Collect(heap, current_country, cached_country, th')
       ELSE /\ heap' = [heap EXCEPT ![current_country] =
                          SetKey(@, "unblurred_image", th[tid].unblurred)]
            /\ Goto(tid, IF th[tid].path = "miss" THEN "save" ELSE "stamp")
            /\ last' = NoCall
    /\ UNCHANGED <<env, runs, served, current_country, last_reset_date,
                   country_pool, pool_seed, cached_country, cached_date>>

\* self._save_cache(self.current_country)
SaveCache(tid) ==
    /\ th[tid].pc = "save"
    /\ cached_date' = get_current_date(now)
    /\ cached_country' = current_country
    /\ Goto(tid, "stamp")
    /\ heap' = Collect(heap, current_country, current_country, th')
    /\ last' = NoCall
    /\ UNCHANGED <<env, runs, served, current_country, last_reset_date,
                   country_pool, pool_seed>>

\* self.last_reset_date = current_date
Stamp(tid) ==
    /\ th[tid].pc = "stamp"
    /\ last_reset_date' = th[tid].current_date
    /\ Goto(tid, "ret")
    /\ last' = NoCall
    /\ UNCHANGED <<env, runs, served, current_country, country_pool, pool_seed,
                   cached_country, cached_date, heap>>

\* return self.current_country (or None).  In daily_check the result is
\* dropped and the job ends; get_game_state goes on with it.
Return(tid) ==
    /\ th[tid].pc \in {"ret", "return_none"}
    /\ LET ret == IF th[tid].pc = "ret" THEN current_country ELSE NoneRef
       IN /\ served' = IF ret = NoneRef THEN served
                       ELSE served \cup {<<get_current_date(now), heap[ret].name>>}
          /\ IF th[tid].op = "daily_check"
             THEN /\ th' = [th EXCEPT ![tid] = Idle]
                  /\ last' = [op |-> "daily_check", called |-> TRUE,
                              at |-> now, date |-> th[tid].current_date,
                              path |-> th[tid].path, returned |-> ret # NoneRef,
                              rec |-> Deref(heap, ret), checked |-> TRUE]
             ELSE /\ th' = [th EXCEPT ![tid] =
                              [pc |-> "respond", op |-> th[tid].op,
                               current_date |-> th[tid].current_date,
                               path |-> th[tid].path, ref |-> ret]]
                  /\ last' = NoCall
    /\ heap' = Collect(heap, current_country, cached_country, th')
    /\ UNCHANGED <<env, runs, current_country, last_reset_date, country_pool,
                   pool_seed, cached_country, cached_date>>

\* get_game_state builds its answer from the returned record.
Respond(tid) ==
    /\ th[tid].pc = "respond"
    /\ th' = [th EXCEPT ![tid] = Idle]
    /\ last' = [op |-> "get_game_state", called |-> TRUE, at |-> now,
                date |-> th[tid].current_date, path |-> th[tid].path,
                returned |-> th[tid].ref # NoneRef,
                rec |-> Deref(heap, th[tid].ref),
                response |-> game_state_response(Self, now, th[tid].ref)]
    /\ heap' = Collect(heap, current_country, cached_country, th')
    /\ UNCHANGED <<env, runs, served, current_country, last_reset_date,
                   country_pool, pool_seed, cached_country, cached_date>>

\* A request thread starts check_guess: if not game.current_country: 400.
StartGuess(tid) ==
    /\ CanStart(tid)
    /\ runs' = runs + 1
    /\ \E guess \in ConcGuesses, hint_level \in HintLevels :
         IF current_country = NoneRef
         THEN /\ last' = [op |-> "check_guess", called |-> FALSE, at |-> now,
                          guess |-> guess, hint_level |-> hint_level,
                          response |-> guess_body(Self, guess, hint_level)]
              /\ UNCHANGED th
         ELSE /\ th' = [th EXCEPT ![tid] =
                          [pc |-> "compare", op |-> "check_guess",
                           guess |-> guess, hint_level |-> hint_level]]
              /\ last' = NoCall
    /\ UNCHANGED <<env, mgr, served>>

\* correct = guess == game.current_country['name'].lower()
CompareGuess(tid) ==
    /\ th[tid].pc = "compare"
    /\ IF current_country = NoneRef
       THEN Crash(tid, "TypeError")
       ELSE /\ th' = [th EXCEPT ![tid] =
                        [th[tid] EXCEPT !.pc = "build"]
                        @@ [correct |-> lower(th[tid].guess)
                                          = lower(heap[current_country].name),
                            compared |-> heap[current_country].name]]
            /\ last' = NoCall
    /\ UNCHANGED <<env, mgr, runs, served>>

\* The response is built from the record that is current by then.
BuildResponse(tid) ==
    /\ th[tid].pc = "build"
    /\ IF current_country = NoneRef
       THEN Crash(tid, "TypeError")
       ELSE /\ th' = [th EXCEPT ![tid] = Idle]
            /\ last' = [op |-> "check_guess", called |-> FALSE, at |-> now,
                        guess |-> th[tid].guess,
                        hint_level |-> th[tid].hint_level,
                        compared |-> th[tid].compared,
                        read |-> heap[current_country],
                        response |-> Raised(response_for(heap[current_country],
                                                         th[tid].correct,
                                                         th[tid].hint_level))]
    /\ UNCHANGED <<env, mgr, runs, served>>

\* The scheduler starts daily_check: read the clock, test the reset stamp.
StartDailyCheck ==
    /\ CanStart("timer")
    /\ runs' = runs + 1
    /\ timer_date # get_current_date(now)
    /\ timer_date' = get_current_date(now)
    /\ IF last_reset_date # get_current_date(now)
       THEN /\ th' = [th EXCEPT !["timer"] =
                        [pc |-> "dc_clear", op |-> "daily_check",
                         current_date |-> get_current_date(now)]]
            /\ last' = NoCall
       ELSE /\ last' = [op |-> "daily_check", called |-> FALSE, at |-> now,
                        checked |-> FALSE]
            /\ UNCHANGED th
    /\ UNCHANGED <<now, provider, raw, mgr, served>>

\* self.current_country = None
ClearCurrent ==
    /\ th["timer"].pc = "dc_clear"
    /\ current_country' = NoneRef
    /\ Goto("timer", "dc_load")
    /\ heap' = Collect(heap, NoneRef, cached_country, th')
    /\ last' = NoCall
    /\ UNCHANGED <<env, runs, served, last_reset_date, country_pool, pool_seed,
                   cached_country, cached_date>>

\* new_country = self._load_cache(); if not new_country:
CheckCache ==
    /\ th["timer"].pc = "dc_load"
    /\ IF load_cache(Self, now) = NoneRef
       THEN /\ Goto("timer", "dc_pool")
            /\ last' = NoCall
       ELSE /\ th' = [th EXCEPT !["timer"] = Idle]
            /\ last' = [op |-> "daily_check", called |-> FALSE, at |-> now,
                        checked |-> TRUE]
    /\ UNCHANGED <<env, mgr, runs, served>>

\* self.country_pool = []; then self._fetch_country_pool()
ClearPool ==
    /\ th["timer"].pc = "dc_pool"
    /\ country_pool' = <<>>
    /\ pool_seed' = NoDate
    /\ th' = [th EXCEPT !["timer"] =
                [th["timer"] EXCEPT !.pc = "fetch"] @@ [after |-> "dc_call"]]
    /\ last' = NoCall
    /\ UNCHANGED <<env, runs, served, current_country, last_reset_date,
                   cached_country, cached_date, heap>>

\* self.get_daily_country()
CallGetDailyCountry ==
    /\ th["timer"].pc = "dc_call"
    /\ Enter("timer", "daily_check")
    /\ last' = NoCall
    /\ UNCHANGED <<env, mgr, runs, served>>

\* The environment moves between handlers: the interleavings explored are
\* those of the handlers' steps with each other.
AllIdle == \A tid \in Threads : th[tid].pc = "idle"
QuietTick == AllIdle /\ Tick
QuietProviderFails == AllIdle /\ ProviderFails
QuietProviderRecovers == AllIdle /\ ProviderRecovers

NextConc ==
    \/ QuietTick
    \/ QuietProviderFails
    \/ QuietProviderRecovers
    \/ \E tid \in Requests : StartGameState(tid)
    \/ \E tid \in Requests : StartGuess(tid)
    \/ StartDailyCheck
    \/ ClearCurrent
    \/ CheckCache
    \/ ClearPool
    \/ CallGetDailyCountry
    \/ \E tid \in Threads : LoadCache(tid)
    \/ \E tid \in Threads : TestPool(tid)
    \/ \E tid \in Threads : FetchAssign(tid)
    \/ \E tid \in Threads : FetchShuffle(tid)
    \/ \E tid \in Threads : PickCountry(tid)
    \/ \E tid \in Threads : ReadFlag(tid)
    \/ \E tid \in Threads : WriteBlurred(tid)
    \/ \E tid \in Threads : WriteUnblurred(tid)
    \/ \E tid \in Threads : SaveCache(tid)
    \/ \E tid \in Threads : Stamp(tid)
    \/ \E tid \in Threads : Return(tid)
    \/ \E tid \in Requests : Respond(tid)
    \/ \E tid \in Requests : CompareGuess(tid)
    \/ \E tid \in Requests : BuildResponse(tid)

\* The handlers as threads that interleave, against the full snapshot.
InitConc == Init /\ provider = "ok" /\ raw = FullSnapshot
SpecConc == InitConc /\ [][NextConc]_vars

\* ------------------------------------------------------------- properties
Today == get_current_date(now)
\* A get_daily_country call has just ended / has just returned a record.
Called == last.called
Returned == last.called /\ last.returned
\* A guess has just been evaluated against a current record.
GuessAnswered == last.op = "check_guess" /\ last.response.status = StatusOK

\* C1: single country per day.  All records that get_daily_country calls
\* returned on one UTC date carry the same country name.
C1_SingleCountryPerDay ==
    \A p, q \in served : p[1] = q[1] => p[2] = q[2]

\* A call returned a record on a date on which an earlier call had already
\* returned one.
C1_Witness == Returned /\ ~last.first

\* C2: deterministic country of the day.  The record get_daily_country
\* returns on date D is the head of the provider's filtered list shuffled with
\* seed D, whatever ran on earlier days.
C2_DeterministicCountryOfDay ==
    Returned =>
        last.rec.name = shuffle(last.date, FilterPool(raw))[1].name.common

\* C3: day-boundary invalidation.  The first call of a date that returns a
\* record does not take the fast path: it returns the cache entry stamped
\* with that date or a record built in the call and stored under that date,
\* and leaves the reset stamp and the cache stamp equal to that date.
C3_DayBoundaryInvalidation ==
    (Returned /\ last.first) =>
        /\ last.path \in {"hit", "miss"}
        /\ last.path = "hit" =>
              /\ last.pre.cached_date = last.date
              /\ last.ret = last.pre.cached_country
        /\ last.path = "miss" =>
              /\ last.ret \notin DOMAIN last.pre.heap
              /\ cached_country = last.ret
        /\ last_reset_date = last.date
        /\ cached_date = last.date

\* The first returning call of a day, made by a manager that carried the
\* previous day's stamp and record.
C3_Witness ==
    /\ Returned /\ last.first /\ last.at > 0
    /\ last.pre.last_reset_date = get_current_date(last.at - 1)
    /\ last.pre.cached_date = get_current_date(last.at - 1)
    /\ last.pre.current_country # NoneRef

\* C4: daily pool refresh.  Once the day's daily_check has run, a held pool
\* is one that was fetched and shuffled on that day.
C4_DailyPoolRefresh ==
    (timer_date = Today /\ country_pool # <<>>) => pool_seed = Today

\* C5: image-failure degradation.  With a pool or a valid cache entry at
\* hand get_daily_country returns a record; when image processing fails
\* the record carries the placeholder in both image fields, and the reset
\* stamp, the cache and the current record are what a successful call leaves.
C5_ImageFailureDegradation ==
    /\ (Called /\ (last.pre.country_pool # <<>>
                   \/ load_cache(last.pre, last.at) # NoneRef))
          => last.returned
    /\ (Called /\ last.path \in {"hit", "miss"}
               /\ (last.img # "ok" \/ last.rec.flag_url = "")) =>
          /\ last.returned
          /\ Get(last.rec, "blurred_image", "") = Placeholder
          /\ Get(last.rec, "unblurred_image", "") = Placeholder
          /\ LET ok == get_daily_country(last.pre, last.at, provider, raw, "ok").self
             IN /\ last_reset_date = ok.last_reset_date
                /\ cached_date = ok.cached_date
                /\ cached_country = ok.cached_country
                /\ current_country = ok.current_country
                /\ country_pool = ok.country_pool
          /\ last_reset_date = last.date
          /\ cached_date = last.date
          /\ cached_country = last.ret
          /\ current_country = last.ret
          /\ heap[current_country] = last.rec

\* A call whose image conversion failed for a country that has a flag URL.
C5_Witness ==
    /\ Returned /\ last.path = "miss"
    /\ last.img = "decode_error" /\ last.rec.flag_url # ""

\* C6: a failure without pool leaves the state unchanged.  With no valid
\* cache entry, no held pool and a provider that fails or has no qualifying
\* country, get_daily_country returns None and the reset stamp, the cache
\* entry and the current record are as before the call.
C6_NoPoolFailureLeavesState ==
    (Called /\ load_cache(last.pre, last.at) = NoneRef
            /\ last.pre.country_pool = <<>>
            /\ (provider # "ok" \/ FilterPool(raw) = <<>>)) =>
        /\ ~last.returned
        /\ last.path = "none"
        /\ last_reset_date = last.pre.last_reset_date
        /\ cached_date = last.pre.cached_date
        /\ cached_country = last.pre.cached_country
        /\ current_country = last.pre.current_country
        /\ Deref(heap, cached_country)
             = Deref(last.pre.heap, last.pre.cached_country)
        /\ Deref(heap, current_country)
             = Deref(last.pre.heap, last.pre.current_country)

\* A failed call of a manager that holds an earlier day's stamp and cache entry.
C6_Witness ==
    /\ Called /\ last.path = "none"
    /\ last.pre.cached_country # NoneRef
    /\ last.pre.last_reset_date # NoDate

\* C7: recovery.  If get_daily_country keeps being called, then from any
\* point from which the provider answers with a qualifying country for good,
\* a call eventually returns a record stamped with the then-current date
\* (again and again: the provider is down, or a call has just returned one).
ProviderAvailable == provider = "ok" /\ FilterPool(raw) # <<>>
Recovered == Returned /\ last.date = Today /\ last_reset_date = Today
C7_Recovery == ([]<>Called) => []<>(~ProviderAvailable \/ Recovered)

\* A request that had to ask the provider again, after a daily_check of an
\* earlier-stamped manager had failed and left no pool, and got a record.
C7_Witness ==
    /\ Returned /\ last.op = "get_game_state" /\ last.fetched
    /\ last.pre.country_pool = <<>>
    /\ last.pre.last_reset_date # NoDate

\* C8: terminal state of the hint machine.  The answer carries the country
\* name and the flag reference, with no hint text and no hint image, exactly
\* when the guess is right or the hint level is at least 4.
C8_TerminalState ==
    GuessAnswered =>
        LET r == last.response
            cc == heap[current_country]
            right == lower(last.guess) = lower(cc.name)
            reveals == /\ r.player_name = Some(cc.name)
                       /\ "image_url" \in DOMAIN r
                       /\ r.image_url = Some(cc.flag_url)
                       /\ r.hint_text = None
                       /\ r.hint_image = None
        IN /\ reveals <=> (right \/ last.hint_level >= 4)
           /\ r.correct <=> right
           /\ (~right /\ last.hint_level < 4) =>
                 (r.player_name = None /\ "image_url" \notin DOMAIN r)

\* A right guess in another letter case at hint level 0, answered with the name.
C8_Witness ==
    /\ GuessAnswered /\ last.response.correct /\ last.hint_level = 0
    /\ last.guess # heap[current_country].name
    /\ last.response.player_name = Some(heap[current_country].name)

\* C9: hint ordering.  A wrong guess at level 0..3 gets exactly the field of
\* that level (0 the unblurred flag, 1 the population, 2 the continent, 3 the
\* capital) and none of a higher level; the image is the unblurred one at
\* levels 0..2 and the flag reference at level 3.
PopulationText(n) ==
    CASE n = 10000000 -> "Population: 10,000,000"
      [] n = 2000000 -> "Population: 2,000,000"
      [] n = 3000000 -> "Population: 3,000,000"
FieldText(cc, level) ==
    CASE level = 0 -> "Unblurred Flag"
      [] level = 1 -> PopulationText(cc.population)
      [] level = 2 -> "Continent: " \o cc.continent
      [] level = 3 -> "Capital: " \o cc.capital
C9_HintOrdering ==
    (GuessAnswered /\ ~last.response.correct /\ last.hint_level \in 0..3) =>
        LET r == last.response
            cc == heap[current_country]
            level == last.hint_level
        IN /\ r.hint_text = Some(FieldText(cc, level))
           /\ \A higher \in (level + 1)..3 :
                 r.hint_text # Some(FieldText(cc, higher))
           /\ r.hint_image = IF level = 3 THEN Some(cc.flag_url)
                                          ELSE Some(cc.unblurred_image)
           /\ r.player_name = None
           /\ "image_url" \notin DOMAIN r

\* A wrong guess at level 2, answered with the continent and the unblurred flag.
C9_Witness ==
    /\ GuessAnswered /\ ~last.response.correct /\ last.hint_level = 2
    /\ last.response.hint_text = Some("Continent: Europe")
    /\ last.response.hint_image = Some(UnblurredOf("fr.png"))

\* The keys of a finished puzzle record.
PuzzleKeys == {"name", "flag_url", "capital", "continent", "population",
               "blurred_image", "unblurred_image"}

\* d is the finished puzzle of one country of the provider's data: every key
\* is there, the five data fields are that country's, and the images are the
\* pair made from its flag or the placeholder pair.
FullyDerived(d) ==
    /\ PuzzleKeys \subseteq DOMAIN d
    /\ \E i \in 1..Len(FilterPool(raw)) :
          LET s == Skeleton(FilterPool(raw)[i])
          IN /\ \A k \in DOMAIN s : d[k] = s[k]
             /\ <<d.blurred_image, d.unblurred_image>> \in
                   { <<BlurredOf(s.flag_url), UnblurredOf(s.flag_url)>>,
                     <<Placeholder, Placeholder>> }

\* C10: under any interleaving of get_game_state, check_guess and daily_check,
\* every record a request reads through current_country is the finished puzzle
\* of a single country: get_game_state answers from such a record, and
\* check_guess builds its response from such a record, the one whose name it
\* compared the guess with.
C10_NoHalfUpdatedRecord ==
    /\ (last.op = "get_game_state" /\ Returned) => FullyDerived(last.rec)
    /\ (last.op = "check_guess" /\ "read" \in DOMAIN last) =>
          /\ FullyDerived(last.read)
          /\ last.compared = last.read.name

\* The thread is inside the miss branch of get_daily_country (lines 141-158):
\* from the pool test to the cache store.
InMissBranch(tid) ==
    \/ th[tid].pc \in {"pool", "pick"}
    \/ th[tid].pc \in {"fetch", "shuffle"} /\ th[tid].after = "pick"
    \/ /\ th[tid].pc \in {"img_read", "img_blurred", "img_unblurred", "save"}
       /\ th[tid].path = "miss"

\* C11: for any day stamp, at most one caller at a time performs the miss-path
\* derivation: two threads (two requests, or a request and the timer's
\* daily_check) are never both inside the miss branch of get_daily_country
\* for the same date.
C11_SingleFlightDerivation ==
    \A a, b \in Threads :
        (a # b /\ InMissBranch(a) /\ InMissBranch(b)) =>
            th[a].current_date # th[b].current_date

NoActiveGame == [error |-> "No active game", status |-> 400]

\* C12: check_guess answers with the 'No active game' error, whatever the
\* guess and the hint level, exactly when the manager holds no current record.
C12_NoActivePuzzle ==
    last.op = "check_guess" =>
        (last.response = NoActiveGame <=> current_country = NoneRef)

\* A guess sent before any record was derived is refused.
C12_Witness ==
    /\ last.op = "check_guess"
    /\ current_country = NoneRef
    /\ last.response = NoActiveGame

\* The raw provider entries with more than 500000 inhabitants and a country
\* code, by their position in the provider's answer.
QualifyingEntries ==
    {i \in 1..Len(raw) : /\ "population" \in DOMAIN raw[i]
                         /\ raw[i].population > 500000
                         /\ "cca2" \in DOMAIN raw[i]
                         /\ raw[i].cca2 # ""}

\* C13: after a successful _fetch_country_pool the held pool is a permutation
\* of exactly the qualifying raw entries: every qualifying entry is in it, every
\* entry of it qualifies, and none is there twice.
C13_PoolFiltering ==
    pool_seed # NoDate =>
        /\ Len(country_pool) = Cardinality(QualifyingEntries)
        /\ \A i \in QualifyingEntries :
              \E j \in 1..Len(country_pool) : country_pool[j] = raw[i]
        /\ \A j \in 1..Len(country_pool) :
              \E i \in QualifyingEntries : country_pool[j] = raw[i]

\* A pool fetched from six raw entries, three of which qualify, and held in
\* another order than the provider's.
C13_Witness ==
    /\ pool_seed # NoDate
    /\ Len(raw) = 6
    /\ Len(country_pool) = 3
    /\ country_pool[1] # raw[1]

\* daily_check has ended after finding last_reset_date different from the
\* current date.
TimerFoundStaleStamp ==
    last.op = "daily_check" /\ "checked" \in DOMAIN last /\ last.checked

\* C14: whenever daily_check runs while last_reset_date differs from the
\* current date, it goes on to clear the pool, fetch and call
\* get_daily_country, which takes the miss branch (and returns a record or
\* None); a cache entry stamped with the current date does not stop it.
C14_ForcedRefresh ==
    TimerFoundStaleStamp => (last.called /\ last.path \in {"miss", "none"})

\* get_daily_country has just run on a manager whose reset stamp was the
\* current date and that held a record.
FastPathCall ==
    /\ Called
    /\ last.pre.last_reset_date = last.date
    /\ last.pre.current_country # NoneRef

\* C15: a get_daily_country call made while last_reset_date is the current
\* date and a record is held returns that record as it was, asks the provider
\* for nothing, processes no image and writes no cache entry: the stamp, the
\* pool, the cache entry and the current record are as before the call.
C15_FastPathPureRead ==
    FastPathCall =>
        /\ last.path = "fast" /\ ~last.fetched
        /\ last.ret = last.pre.current_country
        /\ last.rec = last.pre.heap[last.pre.current_country]
        /\ Self = last.pre

\* A fast-path call during which the flag could not have been fetched, and
\* that still returned the record with its images.
C15_Witness ==
    /\ FastPathCall
    /\ last.img = "transport_error"
    /\ last.rec.blurred_image = BlurredOf("fr.png")
    /\ ~ProviderAvailable

\* What a lookup finds now: the stored record if one is stored under the
\* current date, nothing otherwise.
LookupByStamp ==
    IF cached_country # NoneRef /\ cached_date = Today
    THEN load_cache(Self, now) = cached_country
    ELSE load_cache(Self, now) = NoneRef

\* The cache entry changes only by a _save_cache, which writes the current
\* date and the current record together.
CacheChangesBySave ==
    (cached_country' # cached_country \/ cached_date' # cached_date) =>
        /\ cached_date' = Today'
        /\ cached_country' = current_country'
        /\ cached_country' # NoneRef

\* C16: _load_cache returns the stored record if and only if one is stored
\* and its stamp is the current date; no lookup modifies or evicts the entry,
\* and a stale entry stays until a _save_cache overwrites stamp and record.
C16_CacheStampComparison == [](LookupByStamp) /\ [][CacheChangesBySave]_vars

\* A call that looked up a stale entry, got no country from the provider and
\* left the stale entry in place.
C16_Witness ==
    /\ Called /\ last.path = "none"
    /\ cached_country # NoneRef
    /\ cached_date # Today
    /\ load_cache(Self, now) = NoneRef

\* A manager that holds the current record and nothing else.
OnlyCurrentRecord ==
    IF current_country = NoneRef THEN NewGame
    ELSE [NewGame EXCEPT !.current_country = 1,
                         !.heap = <<heap[current_country]>>]

\* Every request gets the answer it would get from a manager that holds only
\* the current record, and the answer just given is that one.
AnswerFromRecordOnly ==
    /\ \A guess \in Guesses, hint_level \in HintLevels :
          check_guess(Self, guess, hint_level)
            = check_guess(OnlyCurrentRecord, guess, hint_level)
    /\ last.op = "check_guess" =>
          /\ last.response
               = check_guess(OnlyCurrentRecord, last.guess, last.hint_level)
          /\ last.response.status = StatusOK =>
               last.response.hint_level = last.hint_level

\* A step that answers a guess leaves the manager and the returned records
\* as they were.
GuessChangesNothing ==
    (last'.op = "check_guess" /\ last' # last) =>
        UNCHANGED <<current_country, last_reset_date, country_pool, pool_seed,
                    cached_country, cached_date, heap, served>>

\* C17: check_guess modifies no manager state and triggers no derivation; it
\* echoes the caller's hint_level, and its answer is a function of the guess,
\* the hint level and the current record only, so the same request against the
\* same record gets the same answer whatever was guessed before.
C17_StatelessGuess == [](AnswerFromRecordOnly) /\ [][GuessChangesNothing]_vars

\* A wrong guess at level 1 answered on the second day, after earlier calls,
\* while the provider is down.
C17_Witness ==
    /\ GuessAnswered /\ ~last.response.correct /\ last.hint_level = 1
    /\ last.response.hint_text = Some("Population: 10,000,000")
    /\ now >= 1 /\ provider # "ok"

\* C18: with get_daily_country and daily_check each run as one step, the
\* cache stamp equals the reset stamp in every reachable state (both unset
\* at first); so get_daily_country never takes its cache-hit branch, and a
\* daily_check that finds the reset stamp stale never finds a valid cache
\* entry and always goes on to call get_daily_country.
C18_StampsAgree ==
    /\ cached_date = last_reset_date
    /\ Called => last.path # "hit"
    /\ (last.op = "daily_check" /\ last.checked) => last.called

\* On a later day the timer found the stamp stale, the cache entry stale
\* with it, and derived the day's record: both stamps are the current date.
C18_Witness ==
    /\ last.op = "daily_check" /\ last.checked /\ last.called
    /\ last.pre.cached_date # NoDate /\ last.pre.cached_date # Today
    /\ cached_date = Today /\ last_reset_date = Today

\* C19: in every reachable state, also those reached by interleaving the
\* steps of daily_check with those of a request's get_daily_country,
\* last_reset_date equal to the current date implies that a current record is
\* held (so a fast-path call never returns None).
C19_StampImpliesRecord ==
    last_reset_date = Today => current_country # NoneRef

\* C20: whenever check_guess evaluates a guess (it does not answer 'No active
\* game'), the record it judges the guess against is the one stamped with the
\* current date: the reset stamp under which the current record is held is
\* today's, whatever requests and timer firings came before.
C20_GuessAgainstTodaysPuzzle ==
    (last.op = "check_guess" /\ last.response # NoActiveGame) =>
        last_reset_date = Today

====
